---- MODULE Spec2Model ----
(***************************************************************************)
(* Model of pkg/series/storeapi/storeapi.go: the Store API series reader   *)
(* (Series.Read) and the cursor it returns (iterator: Next, At, Warnings,  *)
(* Err, Close), together with the collaborators the code calls: the TLS    *)
(* files, grpc.DialContext, storepb.TranslatePromMatchers, the Series      *)
(* stream (Recv, CloseSend), the connection (Close) and the context.       *)
(***************************************************************************)
EXTENDS Integers, Sequences, FiniteSets, TLC

(***************************************************************************)
(* Bounds of the exploration.                                              *)
(***************************************************************************)
\* Next calls made on one cursor.
MaxNext == 3
\* Close calls made on one cursor.
MaxClose == 2

\* Samples in one sequence handed to the aggregator.
MaxSamples == 3
\* Unify calls in one export.
MaxRows == 3

(***************************************************************************)
(* Values.  An error is the chain of its messages, outermost first; the    *)
(* nil error is the empty chain.  A pointer is a sequence of length 0      *)
(* (nil) or 1.                                                             *)
(***************************************************************************)
NoErr == <<>>

Nil == <<>>

\* errors.New(msg)
New(msg) == <<msg>>

\* errors.Wrap(err, msg): nil when err is nil.
Wrap(err, msg) == IF err = NoErr THEN NoErr ELSE <<msg>> \o err

\* errors.Cause(err): the innermost error of the chain.
Cause(err) == <<err[Len(err)]>>

\* io.EOF
EOF == <<"EOF">>

\* Status errors a stream or a call can end with.
Canceled == <<"rpc error: code = Canceled">>

Aborted == <<"rpc error: code = Aborted">>

Unavailable == <<"rpc error: code = Unavailable">>

StreamErrors == {Canceled, Aborted, Unavailable}

\* grpc.ErrClientConnClosing, returned by conn.Close on a closed connection.
ErrClientConnClosing == <<"grpc: the client connection is closing">>

\* The error a failing CloseSend returns.
CloseSendErr == <<"CloseSend: transport is closing">>

(***************************************************************************)
(* Inputs.                                                                 *)
(***************************************************************************)
\* time.Time values: seconds since the epoch and the nanoseconds within.
Times == {[sec |-> 1, nsec |-> 0], [sec |-> 1, nsec |-> 999999], [sec |-> 2, nsec |-> 5000001]}

\* params.Matchers: the matcher types of the query, "?" an unknown type.
MatcherInputs == {<<"=", "!=", "=~", "!~">>, <<"=", "?">>}

Params == [MinTime : Times, MaxTime : Times, Matchers : MatcherInputs]

\* series.Config: the endpoint and the TLS options.
Configs ==
    [Endpoint : {"store:10901"},
     InsecureSkipVerify : BOOLEAN,
     CertFile : {"", "tls.crt"},
     KeyFile : {"", "tls.key"},
     CAFile : {"", "ca.crt"},
     ServerName : {"", "store.local"}]

\* What the file system and the certificate parsers answer.
FileSystems == [caReadOk : BOOLEAN, pemOk : BOOLEAN, sysPoolOk : BOOLEAN, keyPairOk : BOOLEAN]

\* storepb.Series payloads: the labels and the encoded chunks.
SeriesValues == {[Labels |-> "job=a", Chunks |-> <<"c1">>], [Labels |-> "job=b", Chunks |-> <<"c1", "c2">>]}

\* storepb.SeriesResponse frames: a series, a warning or hints.
Frames ==
    {[kind |-> "series", series |-> <<s>>, text |-> ""] : s \in SeriesValues}
    \cup {[kind |-> "warning", series |-> Nil, text |-> "partial"],
          [kind |-> "hints", series |-> Nil, text |-> "hints"]}

\* SeriesResponse.GetSeries: the series of a series frame, nil otherwise.
GetSeries(resp) == IF resp.kind = "series" THEN resp.series ELSE Nil

\* timestamp.FromTime: t.Unix()*1000 + t.Nanosecond()/1e6.
FromTime(t) == t.sec * 1000 + (t.nsec \div 1000000)

\* storepb.TranslatePromMatchers: the translated matchers, or an error on an
\* unknown matcher type.
TranslateType(t) ==
    CASE t = "=" -> "EQ"
      [] t = "!=" -> "NEQ"
      [] t = "=~" -> "RE"
      [] t = "!~" -> "NRE"
      [] OTHER -> "?"

TranslatePromMatchers(ms) ==
    IF \E k \in 1..Len(ms) : TranslateType(ms[k]) = "?"
    THEN [matchers |-> <<>>, err |-> New("unrecognized matcher type")]
    ELSE [matchers |-> [k \in 1..Len(ms) |-> TranslateType(ms[k])], err |-> NoErr]

(***************************************************************************)
(* TLS configuration and dial options.                                     *)
(***************************************************************************)
\* newCustomClientConfig rejecting only a key given without a certificate.
newCustomClientConfigKeyOnly(cert, key, caCert, serverName, insecureSkipVerify, fs) ==
    LET pool ==
            IF caCert # ""
            THEN IF ~fs.caReadOk
                 THEN [done |-> TRUE, err |-> Wrap(New("open ca.crt: no such file"), "reading client CA"), certPool |-> ""]
                 ELSE IF ~fs.pemOk
                      THEN [done |-> TRUE, err |-> Wrap(NoErr, "building client CA"), certPool |-> ""]
                      ELSE [done |-> FALSE, err |-> NoErr, certPool |-> "provided"]
            ELSE IF ~fs.sysPoolOk
                 THEN [done |-> TRUE, err |-> Wrap(New("system pool unavailable"), "reading system certificate pool"), certPool |-> ""]
                 ELSE [done |-> FALSE, err |-> NoErr, certPool |-> "system"]
        tlsCfg == [RootCAs |-> pool.certPool,
                   InsecureSkipVerify |-> insecureSkipVerify,
                   Certificates |-> <<>>,
                   ServerName |-> ""]
    IN  IF pool.done
        THEN [cfg |-> Nil, err |-> pool.err]
        ELSE IF key # "" /\ cert = ""
             THEN [cfg |-> Nil, err |-> New("both client key and certificate must be provided")]
             ELSE IF cert # ""
                  THEN IF ~fs.keyPairOk
                       THEN [cfg |-> Nil, err |-> Wrap(New("tls: failed to load key pair"), "client credentials")]
                       ELSE [cfg |-> <<[tlsCfg EXCEPT !.Certificates = <<cert>>]>>, err |-> NoErr]
                  ELSE [cfg |-> <<tlsCfg>>, err |-> NoErr]

\* newCustomClientConfig: the *tls.Config (a pointer) and the error.
newCustomClientConfig(cert, key, caCert, serverName, insecureSkipVerify, fs) ==
    LET pool ==
            IF caCert # ""
            THEN IF ~fs.caReadOk
                 THEN [done |-> TRUE, err |-> Wrap(New("open ca.crt: no such file"), "reading client CA"), certPool |-> ""]
                 ELSE IF ~fs.pemOk
                      THEN [done |-> TRUE, err |-> Wrap(NoErr, "building client CA"), certPool |-> ""]
                      ELSE [done |-> FALSE, err |-> NoErr, certPool |-> "provided"]
            ELSE IF ~fs.sysPoolOk
                 THEN [done |-> TRUE, err |-> Wrap(New("system pool unavailable"), "reading system certificate pool"), certPool |-> ""]
                 ELSE [done |-> FALSE, err |-> NoErr, certPool |-> "system"]
        tlsCfg == [RootCAs |-> pool.certPool,
                   InsecureSkipVerify |-> insecureSkipVerify,
                   Certificates |-> <<>>,
                   ServerName |-> ""]
    IN  IF pool.done
        THEN [cfg |-> Nil, err |-> pool.err]
        ELSE IF (key # "") # (cert # "")
             THEN [cfg |-> Nil, err |-> New("both client key and certificate must be provided")]
             ELSE IF cert # ""
                  THEN IF ~fs.keyPairOk
                       THEN [cfg |-> Nil, err |-> Wrap(New("tls: failed to load key pair"), "client credentials")]
                       ELSE [cfg |-> <<[tlsCfg EXCEPT !.Certificates = <<cert>>]>>, err |-> NoErr]
                  ELSE [cfg |-> <<tlsCfg>>, err |-> NoErr]

\* credentials.NewTLS: the configuration the credentials carry; a nil
\* configuration is replaced by the zero configuration.
NewTLS(cfg) ==
    IF cfg = Nil
    THEN [RootCAs |-> "", InsecureSkipVerify |-> FALSE, Certificates |-> <<>>, ServerName |-> ""]
    ELSE cfg[1]

\* InsecureClient: the dial options (here the transport credentials they
\* end with) and the error.
InsecureClient(secure, cert, key, caCert, serverName, fs) ==
    LET r == newCustomClientConfig(cert, key, caCert, serverName, ~secure, fs)
    IN  IF r.err # NoErr
        THEN [dialOpts |-> Nil, err |-> r.err]
        ELSE [dialOpts |-> <<NewTLS(r.cfg)>>, err |-> NoErr]

(***************************************************************************)
(* Series.Read.                                                            *)
(***************************************************************************)
\* The iterator before Read has returned one.
NoIterator == [mint |-> 0, maxt |-> 0, err |-> NoErr, currentSeries |-> Nil]

\* What the network answers to one Read: the error of grpc.DialContext and
\* the error of client.Series.
DialErrors == {NoErr, <<"dial: invalid target">>}

SeriesCallErrors == {NoErr, Unavailable, Aborted}

ReadEnvs == [fs : FileSystems, dialErr : DialErrors, seriesErr : SeriesCallErrors]

\* The collaborators Read calls, in the order of the code.
Stages == <<"InsecureClient", "DialContext", "TranslatePromMatchers", "Series">>

\* The messages Read wraps a collaborator's error in.
OptionsErrMsg == "error initializing GRPC options"

DialErrMsg == "error initializing GRPC dial context"

\* The series call's error wrapped in the dial's message.
SeriesErrMsgOfDial(endpoint) == DialErrMsg

SeriesErrMsg(endpoint) == "storepb.Series against " \o endpoint

\* A request asking for the WARN partial-response strategy.
SeriesRequestWarn(p, matchers) ==
    [MinTime |-> FromTime(p.MinTime),
     MaxTime |-> FromTime(p.MaxTime),
     Matchers |-> matchers,
     PartialResponseStrategy |-> "WARN"]

\* The storepb.SeriesRequest Read sends.
SeriesRequest(p, matchers) ==
    [MinTime |-> FromTime(p.MinTime),
     MaxTime |-> FromTime(p.MaxTime),
     Matchers |-> matchers,
     PartialResponseStrategy |-> "ABORT"]

\* The iterator Read returns.
NewIterator(p) ==
    [mint |-> FromTime(p.MinTime),
     maxt |-> FromTime(p.MaxTime),
     err |-> NoErr,
     currentSeries |-> Nil]

\* Read dialing a second time when the first dial fails.
ReadRetriesDial(c, p, env) ==
    LET o == InsecureClient(~c.InsecureSkipVerify, c.CertFile, c.KeyFile, c.CAFile, c.ServerName, env.fs)
        m == TranslatePromMatchers(p.Matchers)
        none == [calls |-> <<>>, dialOpts |-> Nil, dialed |-> FALSE, req |-> Nil,
                 set |-> Nil, err |-> NoErr]
    IN  IF o.err # NoErr
        THEN [none EXCEPT !.calls = SubSeq(Stages, 1, 1),
                          !.err = Wrap(o.err, OptionsErrMsg)]
        ELSE IF env.dialErr # NoErr
        THEN [none EXCEPT !.calls = SubSeq(Stages, 1, 2) \o <<"DialContext">>,
                          !.dialOpts = o.dialOpts,
                          !.err = Wrap(env.dialErr, DialErrMsg)]
        ELSE IF m.err # NoErr
        THEN [none EXCEPT !.calls = SubSeq(Stages, 1, 3),
                          !.dialOpts = o.dialOpts,
                          !.dialed = TRUE,
                          !.err = m.err]
        ELSE IF env.seriesErr # NoErr
        THEN [none EXCEPT !.calls = Stages,
                          !.dialOpts = o.dialOpts,
                          !.dialed = TRUE,
                          !.req = <<SeriesRequest(p, m.matchers)>>,
                          !.err = Wrap(env.seriesErr, SeriesErrMsg(c.Endpoint))]
        ELSE [none EXCEPT !.calls = Stages,
                          !.dialOpts = o.dialOpts,
                          !.dialed = TRUE,
                          !.req = <<SeriesRequest(p, m.matchers)>>,
                          !.set = <<NewIterator(p)>>]

\* Series.Read: the collaborators called in order, the dial options built,
\* whether a connection was dialed, the request sent, and the returned
\* cursor (set) and error.
Read(c, p, env) ==
    LET o == InsecureClient(~c.InsecureSkipVerify, c.CertFile, c.KeyFile, c.CAFile, c.ServerName, env.fs)
        m == TranslatePromMatchers(p.Matchers)
        none == [calls |-> <<>>, dialOpts |-> Nil, dialed |-> FALSE, req |-> Nil,
                 set |-> Nil, err |-> NoErr]
    IN  IF o.err # NoErr
        THEN [none EXCEPT !.calls = SubSeq(Stages, 1, 1),
                          !.err = Wrap(o.err, OptionsErrMsg)]
        ELSE IF env.dialErr # NoErr
        THEN [none EXCEPT !.calls = SubSeq(Stages, 1, 2),
                          !.dialOpts = o.dialOpts,
                          !.err = Wrap(env.dialErr, DialErrMsg)]
        ELSE IF m.err # NoErr
        THEN [none EXCEPT !.calls = SubSeq(Stages, 1, 3),
                          !.dialOpts = o.dialOpts,
                          !.dialed = TRUE,
                          !.err = m.err]
        ELSE IF env.seriesErr # NoErr
        THEN [none EXCEPT !.calls = Stages,
                          !.dialOpts = o.dialOpts,
                          !.dialed = TRUE,
                          !.req = <<SeriesRequest(p, m.matchers)>>,
                          !.err = Wrap(env.seriesErr, SeriesErrMsg(c.Endpoint))]
        ELSE [none EXCEPT !.calls = Stages,
                          !.dialOpts = o.dialOpts,
                          !.dialed = TRUE,
                          !.req = <<SeriesRequest(p, m.matchers)>>,
                          !.set = <<NewIterator(p)>>]

(***************************************************************************)
(* The cursor: iterator.Next, At, Warnings, Err, Close.                    *)
(***************************************************************************)
\* Next treating every receive error as the end of the stream.
NextDropsErr(i, recv) ==
    IF recv.err # NoErr
    THEN [it |-> i, ret |-> FALSE]
    ELSE [it |-> [i EXCEPT !.currentSeries = GetSeries(recv.resp[1])], ret |-> TRUE]

\* Next clearing the recorded error at the start of every call.
NextResetsErr(i, recv) ==
    IF recv.err = EOF
    THEN [it |-> [i EXCEPT !.err = NoErr], ret |-> FALSE]
    ELSE IF recv.err # NoErr
         THEN [it |-> [i EXCEPT !.err = recv.err], ret |-> FALSE]
         ELSE [it |-> [i EXCEPT !.err = NoErr, !.currentSeries = GetSeries(recv.resp[1])], ret |-> TRUE]

\* Next dropping the current series when it returns false.
NextClearsOnEnd(i, recv) ==
    IF recv.err = EOF
    THEN [it |-> [i EXCEPT !.currentSeries = Nil], ret |-> FALSE]
    ELSE IF recv.err # NoErr
         THEN [it |-> [i EXCEPT !.err = recv.err, !.currentSeries = Nil], ret |-> FALSE]
         ELSE [it |-> [i EXCEPT !.currentSeries = GetSeries(recv.resp[1])], ret |-> TRUE]

\* iterator.Next on what client.Recv returned: the iterator afterwards and
\* the returned boolean.
Next(i, recv) ==
    IF recv.err = EOF
    THEN [it |-> i, ret |-> FALSE]
    ELSE IF recv.err # NoErr
         THEN [it |-> [i EXCEPT !.err = recv.err], ret |-> FALSE]
         ELSE [it |-> [i EXCEPT !.currentSeries = GetSeries(recv.resp[1])], ret |-> TRUE]

\* The aggregates At asks newChunkSeries for.
Aggrs == <<"COUNT", "SUM">>

\* At handing newChunkSeries the range with its ends exchanged.
AtSwapsRange(i) ==
    IF i.currentSeries = Nil
    THEN [panic |-> TRUE, val |-> Nil]
    ELSE [panic |-> FALSE,
          val |-> <<[labels |-> i.currentSeries[1].Labels,
                     chunks |-> i.currentSeries[1].Chunks,
                     mint |-> i.maxt,
                     maxt |-> i.mint,
                     aggrs |-> Aggrs]>>]

\* iterator.At: the chunk series built from the current series, or the
\* nil pointer dereference of i.currentSeries.Labels.
At(i) ==
    IF i.currentSeries = Nil
    THEN [panic |-> TRUE, val |-> Nil]
    ELSE [panic |-> FALSE,
          val |-> <<[labels |-> i.currentSeries[1].Labels,
                     chunks |-> i.currentSeries[1].Chunks,
                     mint |-> i.mint,
                     maxt |-> i.maxt,
                     aggrs |-> Aggrs]>>]

\* The samples encoded in a chunk, in the order of the encoding.
ChunkSamples(c) ==
    CASE c = "c1" -> <<[t |-> 999, v |-> 1], [t |-> 1000, v |-> 2], [t |-> 1500, v |-> 3]>>
      [] c = "c2" -> <<[t |-> 2005, v |-> 5], [t |-> 2006, v |-> 8]>>
      [] OTHER -> <<>>

\* Decode: the samples of a chunk clipped to the inclusive range.
Decode(c, mint, maxt) ==
    SelectSeq(ChunkSamples(c), LAMBDA smp : mint <= smp.t /\ smp.t <= maxt)

\* The samples a chunk series yields: its chunks decoded in order with the
\* range the series was built with.
RECURSIVE DecodeChunks(_, _, _)
DecodeChunks(chunks, mint, maxt) ==
    IF chunks = <<>>
    THEN <<>>
    ELSE Decode(Head(chunks), mint, maxt) \o DecodeChunks(Tail(chunks), mint, maxt)

SeriesSamples(cs) == DecodeChunks(cs.chunks, cs.mint, cs.maxt)

\* iterator.Warnings
Warnings(i) == Nil

\* iterator.Err
Err(i) == i.err

\* Close closing the connection before half-closing the send side.
CloseConnFirst(closeSendErr, connCloseErr) ==
    IF connCloseErr # NoErr
    THEN [calls |-> <<"conn.Close">>, err |-> connCloseErr]
    ELSE [calls |-> <<"conn.Close", "CloseSend">>, err |-> closeSendErr]

\* iterator.Close on what CloseSend returns and what conn.Close would
\* return: the collaborators called in order and the returned error.
Close(closeSendErr, connCloseErr) ==
    IF closeSendErr # NoErr
    THEN [calls |-> <<"CloseSend">>, err |-> closeSendErr]
    ELSE [calls |-> <<"CloseSend", "conn.Close">>, err |-> connCloseErr]

(***************************************************************************)
(* State.                                                                  *)
(***************************************************************************)
VARIABLES
    conf,            \* the series.Config of the Series reader
    params,          \* the series.Params given to Read
    phase,           \* "init", "open" (Read returned a cursor), "failed"
    readErr,         \* the error Read returned
    raised,          \* the collaborator of Read that failed and its error
    dialOpts,        \* the dial options Read built
    req,             \* the SeriesRequest sent
    it,              \* the iterator's fields
    conn,            \* the connection: "none", "open", "closed"
    connCloseCalls,  \* conn.Close calls made
    stream,          \* the receive side: "none", "open", "eof", "failed"
    streamErr,       \* the error a failed stream ended with
    sendClosed,      \* the send side has been half-closed by the cursor
    ctxDone,         \* the context given to Read has been cancelled
    recvFailed,      \* some Recv has returned an error other than io.EOF
    nextCalls,       \* Next calls made
    recvCount,       \* Recv calls made
    closeCalls,      \* Close calls made
    last             \* the last operation, what it called and returned

vars == <<conf, params, phase, readErr, raised, dialOpts, req, it, conn,
          connCloseCalls, stream, streamErr, sendClosed, ctxDone, recvFailed,
          nextCalls, recvCount, closeCalls, last>>

\* The state of the functions explored on their own: the TLS functions,
\* the aggregator and the row unifier.
VARIABLES
    tlsIn,           \* TLS: the arguments and the file system
    tlsOut,          \* TLS: the function applied and what it returned
    aggIn,           \* aggregator: the samples, the resolution and the range
    aggSt,           \* aggregator: samples consumed, open bucket, emitted buckets
    uniSt            \* unifier: the column schema, the rows emitted, the last input

tlsVars == <<tlsIn, tlsOut>>

aggVars == <<aggIn, aggSt>>

uniVars == <<uniSt>>

pureVars == <<tlsVars, aggVars, uniVars>>

allVars == <<vars, pureVars>>

NoTLSIn ==
    [cert |-> "", key |-> "", caCert |-> "", serverName |-> "", secure |-> FALSE,
     fs |-> [caReadOk |-> FALSE, pemOk |-> FALSE, sysPoolOk |-> FALSE, keyPairOk |-> FALSE]]

NoTLSOut == [op |-> "", cfg |-> Nil, err |-> NoErr, dialOpts |-> Nil]

TLSIdle == tlsIn = NoTLSIn /\ tlsOut = NoTLSOut

NoAggIn == [samples |-> <<>>, d |-> 1, min |-> 0, max |-> 0]

NoAggSt == [pos |-> 0, cur |-> Nil, out |-> <<>>, done |-> FALSE]

AggIdle == aggIn = NoAggIn /\ aggSt = NoAggSt

NoUniSt == [schema |-> <<>>, rows |-> <<>>, labels |-> <<>>]

UniIdle == uniSt = NoUniSt

NoRecv == [resp |-> Nil, err |-> NoErr]

NoLast == [op |-> "", calls |-> <<>>, ok |-> FALSE, err |-> NoErr,
           recv |-> NoRecv, val |-> Nil, panic |-> FALSE]

ZeroParams == [MinTime |-> [sec |-> 0, nsec |-> 0], MaxTime |-> [sec |-> 0, nsec |-> 0], Matchers |-> <<>>]

ZeroConfig == [Endpoint |-> "", InsecureSkipVerify |-> FALSE, CertFile |-> "",
               KeyFile |-> "", CAFile |-> "", ServerName |-> ""]

\* The reader before Read is called.
CursorIdle ==
    /\ conf = ZeroConfig
    /\ params = ZeroParams
    /\ phase = "init"
    /\ readErr = NoErr
    /\ raised = [stage |-> "", err |-> NoErr]
    /\ dialOpts = Nil
    /\ req = Nil
    /\ it = NoIterator
    /\ conn = "none"
    /\ connCloseCalls = 0
    /\ stream = "none"
    /\ streamErr = NoErr
    /\ sendClosed = FALSE
    /\ ctxDone = FALSE
    /\ recvFailed = FALSE
    /\ nextCalls = 0
    /\ recvCount = 0
    /\ closeCalls = 0
    /\ last = NoLast

Init == CursorIdle /\ TLSIdle /\ AggIdle /\ UniIdle

\* The number of calls of collaborator c in a sequence of calls.
Count(calls, c) == Cardinality({k \in 1..Len(calls) : calls[k] = c})

\* The collaborator of a Read that failed and the error it raised (none
\* and nil when every collaborator succeeded).
RaisedBy(c, p, env) ==
    LET o == InsecureClient(~c.InsecureSkipVerify, c.CertFile, c.KeyFile, c.CAFile, c.ServerName, env.fs)
        m == TranslatePromMatchers(p.Matchers)
    IN  IF o.err # NoErr THEN [stage |-> "InsecureClient", err |-> o.err]
        ELSE IF env.dialErr # NoErr THEN [stage |-> "DialContext", err |-> env.dialErr]
        ELSE IF m.err # NoErr THEN [stage |-> "TranslatePromMatchers", err |-> m.err]
        ELSE IF env.seriesErr # NoErr THEN [stage |-> "Series", err |-> env.seriesErr]
        ELSE [stage |-> "", err |-> NoErr]

\* A caller calls Series.Read.
CallRead ==
    /\ UNCHANGED pureVars
    /\ phase = "init"
    /\ \E c \in Configs, p \in Params, env \in ReadEnvs :
          LET r == Read(c, p, env)
          IN  /\ conf' = c
              /\ params' = p
              /\ phase' = IF r.set # Nil THEN "open" ELSE "failed"
              /\ readErr' = r.err
              /\ raised' = RaisedBy(c, p, env)
              /\ dialOpts' = r.dialOpts
              /\ req' = r.req
              /\ it' = IF r.set # Nil THEN r.set[1] ELSE NoIterator
              /\ conn' = IF r.dialed THEN "open" ELSE "none"
              /\ stream' = IF r.set # Nil THEN "open" ELSE "none"
              /\ last' = [NoLast EXCEPT !.op = "Read", !.calls = r.calls,
                                        !.ok = (r.set # Nil), !.err = r.err]
    /\ UNCHANGED <<connCloseCalls, streamErr, sendClosed, ctxDone, recvFailed,
                   nextCalls, recvCount, closeCalls>>

\* What client.Recv can return in the current state: a frame, io.EOF or a
\* status error.  After a cancellation frames already buffered may still
\* be delivered before the cancellation error.
RecvOutcomes ==
    CASE stream = "open" /\ ~ctxDone ->
            {[resp |-> <<f>>, err |-> NoErr] : f \in Frames}
            \cup {[resp |-> Nil, err |-> e] : e \in {EOF, Aborted, Unavailable}}
      [] stream = "open" /\ ctxDone ->
            {[resp |-> <<f>>, err |-> NoErr] : f \in Frames}
            \cup {[resp |-> Nil, err |-> Canceled]}
      [] stream = "eof" -> {[resp |-> Nil, err |-> EOF]}
      [] stream = "failed" -> {[resp |-> Nil, err |-> e] : e \in {streamErr, EOF}}
      [] OTHER -> {}

\* The consumer calls Next: one Recv, then the code of Next.
CallNext ==
    /\ UNCHANGED pureVars
    /\ phase = "open"
    /\ nextCalls < MaxNext
    /\ \E recv \in RecvOutcomes :
          LET r == Next(it, recv)
          IN  /\ it' = r.it
              /\ stream' = IF recv.err = NoErr THEN stream
                           ELSE IF recv.err = EOF
                                THEN (IF stream = "open" THEN "eof" ELSE stream)
                                ELSE "failed"
              /\ streamErr' = IF recv.err \notin {NoErr, EOF} THEN recv.err ELSE streamErr
              /\ recvFailed' = (recvFailed \/ recv.err \notin {NoErr, EOF})
              /\ last' = [NoLast EXCEPT !.op = "Next", !.calls = <<"Recv">>,
                                        !.ok = r.ret, !.recv = recv]
    /\ nextCalls' = nextCalls + 1
    /\ recvCount' = recvCount + 1
    /\ UNCHANGED <<conf, params, phase, readErr, raised, dialOpts, req, conn,
                   connCloseCalls, sendClosed, ctxDone, closeCalls>>

\* At receiving the next frame ahead of the consumer's Next.
CallAtReadsAhead ==
    /\ UNCHANGED pureVars
    /\ phase = "open"
    /\ \E recv \in RecvOutcomes :
          last' = [NoLast EXCEPT !.op = "At", !.calls = <<"Recv">>, !.recv = recv,
                                 !.val = At(it).val, !.panic = At(it).panic]
    /\ recvCount' = recvCount + 1
    /\ UNCHANGED <<conf, params, phase, readErr, raised, dialOpts, req, it, conn,
                   connCloseCalls, stream, streamErr, sendClosed, ctxDone,
                   recvFailed, nextCalls, closeCalls>>

\* The consumer calls At.
CallAt ==
    /\ UNCHANGED pureVars
    /\ phase = "open"
    /\ last' = [NoLast EXCEPT !.op = "At", !.val = At(it).val, !.panic = At(it).panic]
    /\ UNCHANGED <<conf, params, phase, readErr, raised, dialOpts, req, it, conn,
                   connCloseCalls, stream, streamErr, sendClosed, ctxDone,
                   recvFailed, nextCalls, recvCount, closeCalls>>

\* The consumer calls Err.
CallErr ==
    /\ UNCHANGED pureVars
    /\ phase = "open"
    /\ last' = [NoLast EXCEPT !.op = "Err", !.err = Err(it)]
    /\ UNCHANGED <<conf, params, phase, readErr, raised, dialOpts, req, it, conn,
                   connCloseCalls, stream, streamErr, sendClosed, ctxDone,
                   recvFailed, nextCalls, recvCount, closeCalls>>

\* The consumer calls Warnings.
CallWarnings ==
    /\ UNCHANGED pureVars
    /\ phase = "open"
    /\ last' = [NoLast EXCEPT !.op = "Warnings", !.val = Warnings(it)]
    /\ UNCHANGED <<conf, params, phase, readErr, raised, dialOpts, req, it, conn,
                   connCloseCalls, stream, streamErr, sendClosed, ctxDone,
                   recvFailed, nextCalls, recvCount, closeCalls>>

\* What conn.Close returns: nil the first time, ErrClientConnClosing after.
ConnCloseResult == IF conn = "closed" THEN ErrClientConnClosing ELSE NoErr

\* The consumer calls Close: CloseSend succeeds or fails, then the code of
\* Close.  A stream still open is ended by either outcome.
CallClose ==
    /\ UNCHANGED pureVars
    /\ phase = "open"
    /\ closeCalls < MaxClose
    /\ \E closeSendErr \in {NoErr, CloseSendErr} :
          LET r == Close(closeSendErr, ConnCloseResult)
          IN  /\ conn' = IF Count(r.calls, "conn.Close") > 0 THEN "closed" ELSE conn
              /\ connCloseCalls' = connCloseCalls + Count(r.calls, "conn.Close")
              /\ sendClosed' = (sendClosed \/ (Count(r.calls, "CloseSend") > 0 /\ closeSendErr = NoErr))
              /\ last' = [NoLast EXCEPT !.op = "Close", !.calls = r.calls,
                                        !.ok = (r.err = NoErr), !.err = r.err]
    /\ stream' = IF stream = "open" THEN "failed" ELSE stream
    /\ streamErr' = IF stream = "open" THEN Canceled ELSE streamErr
    /\ closeCalls' = closeCalls + 1
    /\ UNCHANGED <<conf, params, phase, readErr, raised, dialOpts, req, it,
                   ctxDone, recvFailed, nextCalls, recvCount>>

\* The caller cancels the context given to Read while the stream is open.
Cancel ==
    /\ UNCHANGED pureVars
    /\ phase = "open"
    /\ stream = "open"
    /\ ~ctxDone
    /\ ctxDone' = TRUE
    /\ UNCHANGED <<conf, params, phase, readErr, raised, dialOpts, req, it, conn,
                   connCloseCalls, stream, streamErr, sendClosed, recvFailed,
                   nextCalls, recvCount, closeCalls, last>>

Step ==
    \/ CallRead
    \/ CallNext
    \/ CallAt
    \/ CallErr
    \/ CallWarnings
    \/ CallClose
    \/ Cancel


(***************************************************************************)
(* The TLS functions on their own: newCustomClientConfig and               *)
(* InsecureClient applied to every combination of options and of answers   *)
(* of the file system.                                                     *)
(***************************************************************************)
TLSInputs ==
    [cert : {"", "tls.crt"}, key : {"", "tls.key"}, caCert : {"", "ca.crt"},
     serverName : {"", "store.local"}, secure : BOOLEAN, fs : FileSystems]

\* newCustomClientConfig is called with the arguments.
CallNewCustomClientConfig ==
    /\ tlsOut.op = ""
    /\ LET r == newCustomClientConfig(tlsIn.cert, tlsIn.key, tlsIn.caCert,
                                      tlsIn.serverName, ~tlsIn.secure, tlsIn.fs)
       IN  tlsOut' = [NoTLSOut EXCEPT !.op = "newCustomClientConfig", !.cfg = r.cfg, !.err = r.err]
    /\ UNCHANGED <<tlsIn, vars, aggVars, uniVars>>

\* InsecureClient is called with the arguments; cfg is the configuration
\* its call of newCustomClientConfig returned.
CallInsecureClient ==
    /\ tlsOut.op = ""
    /\ LET r == InsecureClient(tlsIn.secure, tlsIn.cert, tlsIn.key, tlsIn.caCert,
                               tlsIn.serverName, tlsIn.fs)
           c == newCustomClientConfig(tlsIn.cert, tlsIn.key, tlsIn.caCert,
                                      tlsIn.serverName, ~tlsIn.secure, tlsIn.fs)
       IN  tlsOut' = [op |-> "InsecureClient", cfg |-> c.cfg, err |-> r.err, dialOpts |-> r.dialOpts]
    /\ UNCHANGED <<tlsIn, vars, aggVars, uniVars>>

InitTLS ==
    /\ CursorIdle
    /\ AggIdle
    /\ UniIdle
    /\ tlsIn \in TLSInputs
    /\ tlsOut = NoTLSOut

StepTLS ==
    \/ CallNewCustomClientConfig
    \/ CallInsecureClient

(***************************************************************************)
(* The resampling aggregator: a single forward pass over the samples of    *)
(* one series that holds only the open bucket.                             *)
(***************************************************************************)
Resolutions == {1, 2, 3}

AggRanges == {[min |-> 0, max |-> 5], [min |-> 1, max |-> 6]}

SampleValues == {1, 3}

\* Sample timestamps: before, inside and after every range of AggRanges.
SampleTimes == -2..8

\* The sample sequences of at most MaxSamples samples, in non-decreasing
\* timestamp order; a timestamp may lie on either side of the range.
SampleSeqs ==
    {smps \in UNION {[1..n -> [t : SampleTimes, v : SampleValues]] : n \in 0..MaxSamples} :
        \A k \in 1..(Len(smps) - 1) : smps[k].t <= smps[k + 1].t}

\* The arguments of Aggregate: the samples, the resolution and the range.
AggInputs ==
    {[samples |-> smps, d |-> d, min |-> r.min, max |-> r.max] :
        smps \in SampleSeqs, d \in Resolutions, r \in AggRanges}

\* A bucket start computed from the epoch instead of from the range.
BucketStartFromEpoch(t, d, min) == (t \div d) * d

\* The start of the bucket of timestamp t: min + floor((t - min) / d) * d.
BucketStart(t, d, min) == min + ((t - min) \div d) * d

\* The bucket opened by its first sample.
NewBucket(start, smp) ==
    [start |-> start, count |-> 1, sum |-> smp.v, min |-> smp.v, max |-> smp.v]

\* A sample folded into the open bucket.
Accumulate(b, smp) ==
    [b EXCEPT !.count = @ + 1,
              !.sum = @ + smp.v,
              !.min = IF smp.v < @ THEN smp.v ELSE @,
              !.max = IF smp.v > @ THEN smp.v ELSE @]

\* One step of the fold: the next sample joins the open bucket, or closes
\* it (the bucket is emitted) and opens the next.
AggregateStep(in, st) ==
    LET smp == in.samples[st.pos + 1]
        start == BucketStart(smp.t, in.d, in.min)
    IN  IF st.cur = Nil
        THEN [st EXCEPT !.pos = @ + 1, !.cur = <<NewBucket(start, smp)>>]
        ELSE IF st.cur[1].start = start
             THEN [st EXCEPT !.pos = @ + 1, !.cur = <<Accumulate(st.cur[1], smp)>>]
             ELSE [st EXCEPT !.pos = @ + 1,
                             !.out = Append(@, st.cur[1]),
                             !.cur = <<NewBucket(start, smp)>>]

\* The end of the samples: the open bucket, if any, is emitted.
AggregateFinish(in, st) ==
    [st EXCEPT !.out = IF st.cur = Nil THEN @ ELSE Append(@, st.cur[1]),
               !.cur = Nil,
               !.done = TRUE]

\* The aggregator consumes the next sample.
AggFeed ==
    /\ ~aggSt.done
    /\ aggSt.pos < Len(aggIn.samples)
    /\ aggSt' = AggregateStep(aggIn, aggSt)
    /\ UNCHANGED <<aggIn, vars, tlsVars, uniVars>>

\* The aggregator reaches the end of the samples.
AggFinish ==
    /\ ~aggSt.done
    /\ aggSt.pos = Len(aggIn.samples)
    /\ aggSt' = AggregateFinish(aggIn, aggSt)
    /\ UNCHANGED <<aggIn, vars, tlsVars, uniVars>>

InitAggregate ==
    /\ CursorIdle
    /\ TLSIdle
    /\ UniIdle
    /\ aggIn \in AggInputs
    /\ aggSt = NoAggSt

StepAggregate ==
    \/ AggFeed
    \/ AggFinish

(***************************************************************************)
(* The row unifier: the column schema grows in first-seen order and every  *)
(* row is total over the schema of its time.                               *)
(***************************************************************************)
\* The label sets of the series of an export: (name, value) pairs with
\* unique names, in the order of the series.
LabelSets ==
    {<<>>,
     <<[name |-> "a", value |-> "1"]>>,
     <<[name |-> "a", value |-> "1"], [name |-> "b", value |-> "2"]>>,
     <<[name |-> "b", value |-> "3"]>>,
     <<[name |-> "c", value |-> "1"], [name |-> "a", value |-> "2"]>>}

\* The buckets handed to Unify.
UniBuckets ==
    {[start |-> 1000, count |-> 2, sum |-> 3, min |-> 1, max |-> 2],
     [start |-> 2000, count |-> 1, sum |-> 5, min |-> 5, max |-> 5]}

\* The value marking a label the series does not have.
EmptyValue == ""

\* The names in a schema.
Names(schema) == {schema[k] : k \in 1..Len(schema)}

\* The schema after a series: its unseen label names appended in order.
RECURSIVE UnifySchema(_, _)
UnifySchema(schema, labels) ==
    IF labels = <<>>
    THEN schema
    ELSE UnifySchema(IF Head(labels).name \in Names(schema)
                     THEN schema
                     ELSE Append(schema, Head(labels).name),
                     Tail(labels))

\* The value of a label name in a label set, the empty value when absent.
RECURSIVE ValueOf(_, _)
ValueOf(labels, n) ==
    IF labels = <<>>
    THEN EmptyValue
    ELSE IF Head(labels).name = n THEN Head(labels).value ELSE ValueOf(Tail(labels), n)

\* A row holding only the labels the series has.
UnifyRowUnpadded(schema, labels, b) ==
    [labels |-> [n \in {labels[k].name : k \in 1..Len(labels)} |-> ValueOf(labels, n)],
     start |-> b.start, count |-> b.count, sum |-> b.sum, min |-> b.min, max |-> b.max,
     avg |-> <<b.sum, b.count>>]

\* The row of a bucket: a value for every column of the schema, and the
\* aggregates (the average as the pair sum, count).
UnifyRow(schema, labels, b) ==
    [labels |-> [n \in Names(schema) |-> ValueOf(labels, n)],
     start |-> b.start, count |-> b.count, sum |-> b.sum, min |-> b.min, max |-> b.max,
     avg |-> <<b.sum, b.count>>]

\* Unify(bucket, labels): the schema grows, the row is emitted.
Unify ==
    /\ Len(uniSt.rows) < MaxRows
    /\ \E labels \in LabelSets, b \in UniBuckets :
          LET schema == UnifySchema(uniSt.schema, labels)
          IN  uniSt' = [schema |-> schema,
                        rows |-> Append(uniSt.rows, UnifyRow(schema, labels, b)),
                        labels |-> labels]
    /\ UNCHANGED <<vars, tlsVars, aggVars>>

InitUnify ==
    /\ CursorIdle
    /\ TLSIdle
    /\ AggIdle
    /\ uniSt = NoUniSt

StepUnify ==
    \/ Unify

(***************************************************************************)
(* Specifications.                                                         *)
(***************************************************************************)
\* The reader and its cursor.
Spec == Init /\ [][Step]_allVars

\* The TLS functions.
SpecTLS == InitTLS /\ [][StepTLS]_allVars

\* The aggregator.
SpecAggregate == InitAggregate /\ [][StepAggregate]_allVars

\* The row unifier.
SpecUnify == InitUnify /\ [][StepUnify]_allVars

(***************************************************************************)
(* Properties.                                                             *)
(***************************************************************************)
\* C1: the connection dialed by a successful Read is released exactly once
\* via Close: once Close has been called the connection is closed, and no
\* sequence of cursor operations issues a second conn.Close.
C1_ReleasedExactlyOnce ==
    /\ closeCalls > 0 => conn = "closed"
    /\ connCloseCalls <= 1

\* C2: Close releases the connection on every path: conn.Close has been
\* executed when Close returns, also after an error of Next, on an undrained
\* stream and when CloseSend itself fails.
C2_CloseAlwaysReleases ==
    last.op = "Close" => (Count(last.calls, "conn.Close") = 1 /\ conn = "closed")

\* C3: in every execution of Close the send side is half-closed (CloseSend)
\* before the connection is closed, and the connection is never closed
\* while the send side is not half-closed.
C3_HalfCloseBeforeConnClose ==
    /\ last.op = "Close" =>
          \A k \in 1..Len(last.calls) :
              last.calls[k] = "conn.Close" =>
                  \E j \in 1..(k - 1) : last.calls[j] = "CloseSend"
    /\ conn = "closed" => sendClosed

\* C3 witness: a Close that half-closed the send side and closed the
\* connection.
C3_Witness ==
    /\ last.op = "Close"
    /\ last.calls = <<"CloseSend", "conn.Close">>
    /\ conn = "closed"
    /\ sendClosed

\* C4: Next returns true exactly when Recv delivered a message; after a
\* false return on a clean end of stream with no earlier failure Err() is
\* nil, after a false return on a receive error Err() is that error, and a
\* stream that failed never shows a nil Err().
C4_NextAndErr ==
    /\ last.op = "Next" =>
          /\ last.ok <=> (last.recv.resp # Nil /\ last.recv.err = NoErr)
          /\ (last.recv.err = EOF /\ ~recvFailed) => Err(it) = NoErr
          /\ last.recv.err \notin {NoErr, EOF} => Err(it) = last.recv.err
    /\ recvFailed => Err(it) # NoErr

\* C4 witness: after a delivered message a Next returned false on a
\* receive error and Err() is that error.
C4_Witness ==
    /\ last.op = "Next"
    /\ nextCalls >= 2
    /\ it.currentSeries # Nil
    /\ ~last.ok
    /\ last.recv.err = Aborted
    /\ Err(it) = Aborted

\* C5: when the context is cancelled during iteration, the Next that
\* observes the cancellation returns false, Err() then reports the
\* cancellation error, and a following Close releases the connection.
C5_CancelThenClose ==
    /\ (ctxDone /\ last.op = "Next" /\ last.recv.err = Canceled) =>
          (~last.ok /\ Err(it) = Canceled)
    /\ (ctxDone /\ Err(it) = Canceled /\ last.op = "Close") => conn = "closed"

\* C6: whenever Next returns true the current series is set to the series
\* carried by the frame just received, for every kind of frame, so that At
\* can be evaluated.
C6_TrueMeansSeries ==
    (last.op = "Next" /\ last.ok) =>
        /\ it.currentSeries # Nil
        /\ it.currentSeries = last.recv.resp[1].series
        /\ ~At(it).panic

\* C7: each Next performs exactly one Recv and no other operation performs
\* one, so the frames taken from the stream never exceed the Next calls.
C7_PullDriven ==
    /\ Count(last.calls, "Recv") = (IF last.op = "Next" THEN 1 ELSE 0)
    /\ recvCount = nextCalls

\* C7 witness: an At after two Next calls, two frames taken.
C7_Witness ==
    /\ last.op = "At"
    /\ nextCalls = 2
    /\ recvCount = 2

\* Milliseconds since the epoch of a time, rounded down.
Millis(t) == (t.sec * 1000000000 + t.nsec) \div 1000000

\* C8: every series request carries the ABORT partial-response strategy and
\* the caller's time range in milliseconds, and the cursor stores the same
\* range as the request.
C8_RequestPolicyAndRange ==
    req # Nil =>
        /\ req[1].PartialResponseStrategy = "ABORT"
        /\ req[1].MinTime = Millis(params.MinTime)
        /\ req[1].MaxTime = Millis(params.MaxTime)
        /\ phase = "open" => (it.mint = req[1].MinTime /\ it.maxt = req[1].MaxTime)

\* C8 witness: a cursor opened for a range whose ends are not whole
\* milliseconds and differ.
C8_Witness ==
    /\ phase = "open"
    /\ req # Nil
    /\ params.MinTime.nsec = 999999
    /\ params.MaxTime.nsec = 5000001
    /\ it.mint = 1000
    /\ it.maxt = 2005

\* The stage of Read a caller reads off the returned error: the wrapping
\* message, or no wrapping for a matcher translation error.
StageOf(err) ==
    CASE err[1] = OptionsErrMsg -> "InsecureClient"
      [] err[1] = DialErrMsg -> "DialContext"
      [] err[1] = "storepb.Series against " \o conf.Endpoint -> "Series"
      [] OTHER -> "TranslatePromMatchers"

\* C9: a failed Read returns no cursor and an error that tells which stage
\* failed and preserves the original cause.
C9_ReadErrorKinds ==
    phase = "failed" =>
        /\ readErr # NoErr
        /\ ~last.ok
        /\ it = NoIterator
        /\ StageOf(readErr) = raised.stage
        /\ Cause(readErr) = Cause(raised.err)

\* C9 witness: a Read whose series call was aborted by the remote peer.
C9_Witness ==
    /\ phase = "failed"
    /\ raised.stage = "Series"
    /\ raised.err = Aborted
    /\ Len(readErr) = 2

\* C10: Read never retries: the connection is dialed at most once, the
\* series call is issued at most once, and Read stops at the first stage
\* that fails.
C10_ReadNoRetry ==
    last.op = "Read" =>
        /\ Count(last.calls, "DialContext") <= 1
        /\ Count(last.calls, "Series") <= 1
        /\ \E n \in 1..Len(Stages) : last.calls = SubSeq(Stages, 1, n)
        /\ raised.stage # "" =>
              (readErr # NoErr /\ last.calls[Len(last.calls)] = raised.stage)
        /\ raised.stage = "" => (readErr = NoErr /\ last.calls = Stages)

\* C10 witness: a Read whose dial failed: nothing after the dial was called.
C10_Witness ==
    /\ last.op = "Read"
    /\ raised.stage = "DialContext"
    /\ last.calls = <<"InsecureClient", "DialContext">>
    /\ conn = "none"
    /\ req = Nil

\* The samples encoded in the chunks of a series, unclipped.
RECURSIVE RawSamples(_)
RawSamples(chunks) ==
    IF chunks = <<>> THEN <<>> ELSE ChunkSamples(Head(chunks)) \o RawSamples(Tail(chunks))

\* C11: every series At hands out is decoded with the range of the Read
\* request: it yields exactly the encoded samples with a timestamp in
\* [min, max], both ends included, in strictly increasing order.
C11_AtClipsToRequestRange ==
    (last.op = "At" /\ ~last.panic) =>
        LET cs == last.val[1]
            out == SeriesSamples(cs)
            lo == Millis(params.MinTime)
            hi == Millis(params.MaxTime)
        IN  /\ cs.mint = req[1].MinTime
            /\ cs.maxt = req[1].MaxTime
            /\ \A k \in 1..Len(out) : lo <= out[k].t /\ out[k].t <= hi
            /\ \A k \in 1..(Len(out) - 1) : out[k].t < out[k + 1].t
            /\ out = SelectSeq(RawSamples(cs.chunks), LAMBDA smp : lo <= smp.t /\ smp.t <= hi)

\* C11 witness: At on a series of two chunks whose samples lie below, on
\* and above the ends of the range: three of the five samples are kept.
C11_Witness ==
    /\ last.op = "At"
    /\ ~last.panic
    /\ Len(last.val[1].chunks) = 2
    /\ last.val[1].mint = 1000
    /\ last.val[1].maxt = 2005
    /\ Len(SeriesSamples(last.val[1])) = 3
    /\ Len(RawSamples(last.val[1].chunks)) = 5

\* C14: the TLS configuration of the connection honours every configured
\* option: the server name override, the CA bundle as root pool (the system
\* pool when none is given), the client certificate when cert and key are
\* given, and InsecureSkipVerify as configured.
C14_TLSOptionsHonoured ==
    dialOpts # Nil =>
        /\ dialOpts[1].ServerName = conf.ServerName
        /\ dialOpts[1].RootCAs = (IF conf.CAFile # "" THEN "provided" ELSE "system")
        /\ dialOpts[1].Certificates =
              (IF conf.CertFile # "" /\ conf.KeyFile # "" THEN <<conf.CertFile>> ELSE <<>>)
        /\ dialOpts[1].InsecureSkipVerify = conf.InsecureSkipVerify

\* C15: a Read that returns an error leaves no connection it dialed open.
C15_FailedReadClosesConn ==
    phase = "failed" => conn # "open"

\* C16: once a Next has recorded an error, Err() stays non-nil whatever is
\* called afterwards; a later end of stream does not reset it.
C16_ErrSticky ==
    [][Err(it) # NoErr => Err(it)' # NoErr]_vars

\* C16 witness: a Next that met the end of the stream after an earlier
\* Next recorded an error; Err() still reports the error.
C16_Witness ==
    /\ last.op = "Next"
    /\ last.recv.err = EOF
    /\ recvFailed
    /\ Err(it) # NoErr

\* C17: a Next that returns false leaves the current series unchanged, At,
\* Err and Warnings change no cursor state, and At describes the same
\* series until a Next returns true.
C17_FrameEffects ==
    [][/\ ~(last'.op = "Next" /\ last'.ok /\ nextCalls' # nextCalls) =>
              (it'.currentSeries = it.currentSeries /\ At(it)' = At(it))
       /\ last'.op \in {"At", "Err", "Warnings"} =>
              /\ it' = it
              /\ <<conn, connCloseCalls, stream, streamErr, sendClosed>>'
                    = <<conn, connCloseCalls, stream, streamErr, sendClosed>>
              /\ <<nextCalls, recvCount, closeCalls>>' = <<nextCalls, recvCount, closeCalls>>]_vars

\* C17 witness: a Next returned false while a current series is set: the
\* series is still there for At.
C17_Witness ==
    /\ last.op = "Next"
    /\ ~last.ok
    /\ it.currentSeries # Nil
    /\ ~At(it).panic

\* C18: newCustomClientConfig never returns a nil configuration together
\* with a nil error, so InsecureClient never builds transport credentials
\* from a nil configuration.
C18_NoNilConfigWithoutError ==
    /\ tlsOut.op = "newCustomClientConfig" => ~(tlsOut.cfg = Nil /\ tlsOut.err = NoErr)
    /\ (tlsOut.op = "InsecureClient" /\ tlsOut.dialOpts # Nil) => tlsOut.cfg # Nil

\* The CA pool was loaded: the given CA file was read and parsed, or the
\* system pool was available.
PoolLoaded(in) ==
    IF in.caCert # "" THEN in.fs.caReadOk /\ in.fs.pemOk ELSE in.fs.sysPoolOk

\* The error for a key given without a certificate or the reverse.
KeyCertErr == <<"both client key and certificate must be provided">>

\* C19: given a loaded CA pool, newCustomClientConfig returns the
\* key-and-certificate error exactly when one of cert and key is empty and
\* the other is not, installs a client certificate only when both are
\* given, and returns a configuration without certificates when both are
\* empty.
C19_KeyAndCertTogether ==
    (tlsOut.op = "newCustomClientConfig" /\ PoolLoaded(tlsIn)) =>
        /\ tlsOut.err = KeyCertErr <=> ((tlsIn.cert = "") # (tlsIn.key = ""))
        /\ (tlsOut.cfg # Nil /\ tlsOut.cfg[1].Certificates # <<>>) =>
              (tlsIn.cert # "" /\ tlsIn.key # "")
        /\ (tlsIn.cert = "" /\ tlsIn.key = "") =>
              (tlsOut.err = NoErr /\ tlsOut.cfg # Nil /\ tlsOut.cfg[1].Certificates = <<>>)

\* C19 witness: a certificate given without a key, the CA pool loaded: the
\* key-and-certificate error and no configuration.
C19_Witness ==
    /\ tlsOut.op = "newCustomClientConfig"
    /\ PoolLoaded(tlsIn)
    /\ tlsIn.cert # ""
    /\ tlsIn.key = ""
    /\ tlsOut.err = KeyCertErr
    /\ tlsOut.cfg = Nil

\* The samples of the input that fall in the bucket starting at start.
SamplesIn(start) ==
    {k \in 1..Len(aggIn.samples) :
        aggIn.min + ((aggIn.samples[k].t - aggIn.min) \div aggIn.d) * aggIn.d = start}

IsPrefix(p, q) == Len(p) <= Len(q) /\ SubSeq(q, 1, Len(p)) = p

\* C13: the column schema is append-only over any sequence of Unify calls:
\* no name is removed or reordered, every new row has a value for every
\* column of the schema, the empty value where the series lacks the label,
\* and the rows emitted before are not rewritten.
C13_SchemaAppendOnly ==
    [][/\ IsPrefix(uniSt.schema, uniSt'.schema)
       /\ IsPrefix(uniSt.rows, uniSt'.rows)
       /\ Len(uniSt'.rows) = Len(uniSt.rows) + 1
       /\ LET row == uniSt'.rows[Len(uniSt'.rows)]
              given == {uniSt'.labels[k].name : k \in 1..Len(uniSt'.labels)}
          IN  /\ DOMAIN row.labels = {uniSt'.schema[k] : k \in 1..Len(uniSt'.schema)}
              /\ given \subseteq DOMAIN row.labels
              /\ \A n \in DOMAIN row.labels :
                    IF n \in given
                    THEN \E k \in 1..Len(uniSt'.labels) :
                            uniSt'.labels[k].name = n /\ uniSt'.labels[k].value = row.labels[n]
                    ELSE row.labels[n] = EmptyValue]_uniVars

\* C13 witness: after series {a}, {a, b} a series with only b: the schema
\* is a, b, the new row has the empty value for a, and the first row still
\* has only column a.
C13_Witness ==
    /\ Len(uniSt.rows) = 3
    /\ uniSt.schema = <<"a", "b">>
    /\ uniSt.labels = <<[name |-> "b", value |-> "3"]>>
    /\ uniSt.rows[3].labels["a"] = EmptyValue
    /\ uniSt.rows[3].labels["b"] = "3"
    /\ DOMAIN uniSt.rows[1].labels = {"a"}

====
